---- MODULE Spec2Model ----
(***************************************************************************)
(* Code History Tracker (src/extension.js): the git-log record parser, the *)
(* HTML renderer and the history operations built on them.                 *)
(*                                                                         *)
(* Text is modelled character by character: a JavaScript string is a       *)
(* sequence of one-character values.  Characters outside ASCII are named   *)
(* by their code point (BULLET is the single character U+2022).            *)
(***************************************************************************)
EXTENDS Integers, Sequences, FiniteSets, TLC

VARIABLES
    output,     \* raw text handed to parseGitLog (stdout of the git subprocess)
    commits,    \* the array parseGitLog returned
    title,      \* the title handed to formatCommitsHTML
    html,       \* the document formatCommitsHTML returned
    pc,         \* position in the parse / render pipeline
    toplevel,   \* what getGitRoot yields for the file: a root path, or Null
    git,        \* the repository's answer to each history query
    editor,     \* vscode.window.activeTextEditor
    call,       \* the operation or command that was invoked
    launched,   \* the history queries executeGit launched, in order
    outcome,    \* what the invoked operation returned or threw
    messages,   \* the messages shown to the user, in order
    panels,     \* the webview panels created, in order
    hpc,        \* position of the command handler: "idle", "prompt" or "done"
    hovers      \* the hover requests answered so far, in order

pipeVars == <<output, commits, title, html, pc>>
hostVars ==
    <<toplevel, git, editor, call, launched, outcome, messages, panels, hpc, hovers>>
vars == <<pipeVars, hostVars>>

----------------------------------------------------------------------------
(* Bounds of the model *)

\* longest raw text, in lines, fed to the parser on its own
MaxLines == 4

\* longest git history, in entries, parsed and rendered
MaxEntries == 2

\* highest 1-based line number of the file a history is asked for
MaxLine == 2

----------------------------------------------------------------------------
(* Characters and string primitives of JavaScript *)

NL == "\n"
TAB == "\t"
SP == " "
BULLET == "U+2022"

\* what String.prototype.trim strips and the regular expression class \s matches
Whitespace == {SP, TAB, NL}

\* the regular expression class \w
WordChars ==
    {"a","b","c","d","e","f","g","h","i","j","k","l","m","n","o","p","q","r","s",
     "t","u","v","w","x","y","z",
     "A","B","C","D","E","F","G","H","I","J","K","L","M","N","O","P","Q","R","S",
     "T","U","V","W","X","Y","Z",
     "0","1","2","3","4","5","6","7","8","9","_"}

\* str.startsWith(prefix)
StartsWith(str, prefix) ==
    /\ Len(str) >= Len(prefix)
    /\ SubSeq(str, 1, Len(prefix)) = prefix

\* str.indexOf(pat), 1-based; 0 when pat does not occur
IndexOf(str, pat) ==
    LET hits == {i \in 1..(Len(str) - Len(pat) + 1) :
                    SubSeq(str, i, i + Len(pat) - 1) = pat}
    IN IF hits = {} THEN 0 ELSE CHOOSE i \in hits : \A j \in hits : i <= j

\* str.replace(pat, ''): the first occurrence of the string pattern is removed
RemoveFirst(str, pat) ==
    LET i == IndexOf(str, pat)
    IN IF i = 0 THEN str
       ELSE SubSeq(str, 1, i - 1) \o SubSeq(str, i + Len(pat), Len(str))

\* str.trim()
Trim(str) ==
    LET keep == {i \in 1..Len(str) : str[i] \notin Whitespace}
    IN IF keep = {} THEN <<>>
       ELSE SubSeq(str, CHOOSE i \in keep : \A j \in keep : i <= j,
                        CHOOSE i \in keep : \A j \in keep : i >= j)

\* str.split(sep) for a non-empty string separator: the text is cut at the
\* occurrences of sep taken left to right, each starting at or after the end
\* of the one before
RECURSIVE SplitFrom(_, _, _)
SplitFrom(str, sep, start) ==
    LET hits == {i \in start..(Len(str) - Len(sep) + 1) :
                    SubSeq(str, i, i + Len(sep) - 1) = sep}
        at == CHOOSE i \in hits : \A j \in hits : i <= j
    IN IF hits = {} THEN <<SubSeq(str, start, Len(str))>>
       ELSE <<SubSeq(str, start, at - 1)>> \o SplitFrom(str, sep, at + Len(sep))

Split(str, sep) == SplitFrom(str, sep, 1)

\* array.join(sep)
RECURSIVE JoinRange(_, _, _, _)
JoinRange(parts, sep, lo, hi) ==
    IF lo > hi THEN <<>>
    ELSE IF lo = hi THEN parts[lo]
    ELSE LET mid == (lo + hi) \div 2
         IN JoinRange(parts, sep, lo, mid) \o sep
                \o JoinRange(parts, sep, mid + 1, hi)

Join(parts, sep) == JoinRange(parts, sep, 1, Len(parts))

\* regex.test for /^\s+\w/ : one or more whitespace characters, then a word character
MatchesIndentedWord(str) ==
    \E k \in 1..(Len(str) - 1) :
        /\ \A i \in 1..k : str[i] \in Whitespace
        /\ str[k + 1] \in WordChars

----------------------------------------------------------------------------
(* The literals parseGitLog looks for *)

CommitPrefix == <<"c","o","m","m","i","t"," ">>
AuthorPrefix == <<"A","u","t","h","o","r",":"," ">>
DatePrefix == <<"D","a","t","e",":"," ">>
BranchesPrefix == <<"B","r","a","n","c","h","e","s",":"," ">>
DiffGitPrefix == <<"d","i","f","f"," ","-","-","g","i","t">>
MinusPrefix == <<"-","-","-">>
PlusPrefix == <<"+","+","+">>

\* the separator of output.split('\n\ncommit ')
BlockSeparator == <<NL, NL>> \o CommitPrefix

----------------------------------------------------------------------------
(* parseGitLog *)

\* the condition that switches the line loop to diff mode
IsDiffMarker(line) ==
    \/ StartsWith(line, DiffGitPrefix)
    \/ StartsWith(line, MinusPrefix)
    \/ StartsWith(line, PlusPrefix)

\* the commit object and loop state a block starts with
NewCommit ==
    [hash |-> <<>>, author |-> <<>>, date |-> <<>>, message |-> <<>>,
     branch |-> <<>>, diff |-> <<>>]

NewLoopState == [commit |-> NewCommit, inDiff |-> FALSE, diffLines |-> <<>>]

\* the summary branch taken for a non-blank line that does not start with a space
AppendMessage(message, line) ==
    IF message # <<>> THEN message \o <<SP>> \o Trim(line) ELSE Trim(line)

\* the condition of the "continuation of message" branch
IsContinuation(line) ==
    \/ StartsWith(Trim(line), <<BULLET>>)
    \/ MatchesIndentedWord(Trim(line))

\* a loop body in which a header field, once set, is not assigned again
ParseLineFirstWins(st, line) ==
    IF StartsWith(line, CommitPrefix)
    THEN IF st.commit.hash # <<>> THEN st
         ELSE [st EXCEPT !.commit.hash = Trim(RemoveFirst(line, CommitPrefix))]
    ELSE IF StartsWith(line, AuthorPrefix)
    THEN IF st.commit.author # <<>> THEN st
         ELSE [st EXCEPT !.commit.author = Trim(RemoveFirst(line, AuthorPrefix))]
    ELSE IF StartsWith(line, DatePrefix)
    THEN IF st.commit.date # <<>> THEN st
         ELSE [st EXCEPT !.commit.date = Trim(RemoveFirst(line, DatePrefix))]
    ELSE IF StartsWith(line, BranchesPrefix)
    THEN IF st.commit.branch # <<>> THEN st
         ELSE [st EXCEPT !.commit.branch = Trim(RemoveFirst(line, BranchesPrefix))]
    ELSE IF IsDiffMarker(line)
    THEN [st EXCEPT !.inDiff = TRUE]
    ELSE IF st.inDiff
    THEN [st EXCEPT !.diffLines = Append(@, line)]
    ELSE IF Trim(line) # <<>> /\ ~StartsWith(line, <<SP>>)
    THEN [st EXCEPT !.commit.message = AppendMessage(@, line)]
    ELSE IF IsContinuation(line)
    THEN [st EXCEPT !.commit.message = @ \o <<SP>> \o Trim(line)]
    ELSE st

\* one iteration of the loop over the lines of a block: the if / else-if chain
ParseLine(st, line) ==
    IF StartsWith(line, CommitPrefix)
    THEN [st EXCEPT !.commit.hash = Trim(RemoveFirst(line, CommitPrefix))]
    ELSE IF StartsWith(line, AuthorPrefix)
    THEN [st EXCEPT !.commit.author = Trim(RemoveFirst(line, AuthorPrefix))]
    ELSE IF StartsWith(line, DatePrefix)
    THEN [st EXCEPT !.commit.date = Trim(RemoveFirst(line, DatePrefix))]
    ELSE IF StartsWith(line, BranchesPrefix)
    THEN [st EXCEPT !.commit.branch = Trim(RemoveFirst(line, BranchesPrefix))]
    ELSE IF IsDiffMarker(line)
    THEN [st EXCEPT !.inDiff = TRUE]
    ELSE IF st.inDiff
    THEN [st EXCEPT !.diffLines = Append(@, line)]
    ELSE IF Trim(line) # <<>> /\ ~StartsWith(line, <<SP>>)
    THEN [st EXCEPT !.commit.message = AppendMessage(@, line)]
    ELSE IF IsContinuation(line)
    THEN [st EXCEPT !.commit.message = @ \o <<SP>> \o Trim(line)]
    ELSE st

\* the loop over the lines of a block
RECURSIVE ParseLines(_, _)
ParseLines(st, lines) ==
    IF Len(lines) = 0 THEN st
    ELSE ParseLines(ParseLine(st, lines[1]), Tail(lines))

\* a filter that keeps every block, blank ones too
NonBlankKeepsAll(block) == TRUE

\* output.split('\n\ncommit ').filter(b => b.trim())
NonBlank(block) == Trim(block) # <<>>

CommitBlocks(text) == SelectSeq(Split(text, BlockSeparator), NonBlank)

\* the marker the split consumed is put back
RestoreMarker(block) ==
    IF ~StartsWith(block, CommitPrefix) THEN CommitPrefix \o block ELSE block

\* the lines the line loop of a block runs over
BlockLines(block) == Split(RestoreMarker(block), <<NL>>)

\* the body of the loop over commitBlocks: one commit object per block
ParseBlock(block) ==
    LET st == ParseLines(NewLoopState, BlockLines(block))
    IN [st.commit EXCEPT !.diff = Join(st.diffLines, <<NL>>)]

\* a parser that pushes the commits in the opposite order
parseGitLogReversed(text) ==
    LET blocks == CommitBlocks(text)
    IN [i \in 1..Len(blocks) |-> ParseBlock(blocks[Len(blocks) + 1 - i])]

parseGitLog(text) ==
    LET blocks == CommitBlocks(text)
    IN [i \in 1..Len(blocks) |-> ParseBlock(blocks[i])]

----------------------------------------------------------------------------
(* escapeHTML *)

\* escapeHTML with the angle brackets missing from its table
EscapeCharNoAngle(char) ==
    CASE char = "&" -> <<"&","a","m","p",";">>
      [] char = "'" -> <<"&","#","3","9",";">>
      [] char = "\"" -> <<"&","q","u","o","t",";">>
      [] OTHER -> <<char>>

\* the replacement table of escapeHTML
EscapeChar(char) ==
    CASE char = "&" -> <<"&","a","m","p",";">>
      [] char = "<" -> <<"&","l","t",";">>
      [] char = ">" -> <<"&","g","t",";">>
      [] char = "'" -> <<"&","#","3","9",";">>
      [] char = "\"" -> <<"&","q","u","o","t",";">>
      [] OTHER -> <<char>>

\* str.replace(/[&<>'"]/g, char => table[char]): every character is replaced
\* by its table entry, the others are kept
RECURSIVE EscapeRange(_, _, _)
EscapeRange(str, lo, hi) ==
    IF lo > hi THEN <<>>
    ELSE IF lo = hi THEN EscapeChar(str[lo])
    ELSE LET mid == (lo + hi) \div 2
         IN EscapeRange(str, lo, mid) \o EscapeRange(str, mid + 1, hi)

escapeHTML(str) == EscapeRange(str, 1, Len(str))

----------------------------------------------------------------------------
(* formatCommitsHTML *)
(* The document is a sequence whose elements are either one character that *)
(* an interpolation ${...} put there, or one of the values below, each     *)
(* standing for a fixed stretch of the template literal (markup, styles    *)
(* and icons, whitespace left out).                                        *)

EmptyDocHead == "<!DOCTYPE html><html lang=en><head>...<title>"
EmptyDocStyle == "</title><style>[empty-state styles]</style></head><body><div class=header><h1>"
EmptyDocTail == "</h1></div><div class=no-results>...No commits found in history.</p></div></body></html>"
DocHead == "<!DOCTYPE html><html lang=en><head>...<title>"
DocStyle == "</title><style>[styles]</style></head><body><div class=header><h1>"
DocStats == "</h1><div class=stats-badge><svg>...</svg><span>Found "
DocCommitWord == " commit"
DocList == "</span></div></div><div class=commits-list>"
DocTail == "</div></body></html>"
CardOpen == "<div class=commit-card><div class=commit-header><div class=commit-header-left><span class=commit-number>#"
CardHash == "</span><code class=commit-hash>"
CardHashClose == "</code>"
CardBranch == "<span class=commit-branch>[herb] "
CardBranchClose == "</span>"
CardDate == "</div><span class=commit-date>[calendar] "
CardMessage == "</span></div><div class=commit-body><p class=commit-message>"
CardAuthor == "</p><div class=commit-author><svg class=author-icon>...</svg><span class=author-name>"
CardAuthorClose == "</span></div></div>"
CardDiff == "<details class=commit-diff><summary class=diff-summary>...View changes...</summary><pre class=diff-content><code>"
CardDiffClose == "</code></pre></details>"
CardClose == "</div>"

TemplateTokens ==
    {EmptyDocHead, EmptyDocStyle, EmptyDocTail, DocHead, DocStyle, DocStats,
     DocCommitWord, DocList, DocTail, CardOpen, CardHash, CardHashClose,
     CardBranch, CardBranchClose, CardDate, CardMessage, CardAuthor,
     CardAuthorClose, CardDiff, CardDiffClose, CardClose}

\* number of characters of the hash shown: commit.hash.substring(0, 7)
HashChars == 7

\* str.substring(0, n)
Substring0(str, n) == SubSeq(str, 1, IF Len(str) < n THEN Len(str) ELSE n)

\* decimal digits of a non-negative number, as template interpolation prints it
DigitChars == <<"0","1","2","3","4","5","6","7","8","9">>

RECURSIVE NumberToString(_)
NumberToString(n) ==
    IF n < 10 THEN <<DigitChars[n + 1]>>
    ELSE NumberToString(n \div 10) \o <<DigitChars[(n % 10) + 1]>>

\* numbering that counts up from the first card
SequenceNumberAscending(length, index) == index + 1

\* numbering that is off by one
SequenceNumberOffByOne(length, index) == length - index - 1

\* the sequence number of the card at 0-based index: commits.length - index
SequenceNumber(length, index) == length - index

\* commit.branch.split(',')[0].trim()
FirstBranch(branch) == Trim(Split(branch, <<",">>)[1])

\* the callback of commits.map: the card of one commit
CommitCard(commit, index, length) ==
    <<CardOpen>> \o NumberToString(SequenceNumber(length, index))
    \o <<CardHash>> \o Substring0(commit.hash, HashChars) \o <<CardHashClose>>
    \o (IF commit.branch # <<>>
        THEN <<CardBranch>> \o escapeHTML(FirstBranch(commit.branch))
                 \o <<CardBranchClose>>
        ELSE <<>>)
    \o <<CardDate>> \o escapeHTML(commit.date)
    \o <<CardMessage>> \o escapeHTML(commit.message)
    \o <<CardAuthor>> \o escapeHTML(commit.author) \o <<CardAuthorClose>>
    \o (IF commit.diff # <<>>
        THEN <<CardDiff>> \o escapeHTML(commit.diff) \o <<CardDiffClose>>
        ELSE <<>>)
    \o <<CardClose>>

\* commits.map(...).join('')
RECURSIVE CommitCards(_, _)
CommitCards(cs, index) ==
    IF index >= Len(cs) THEN <<>>
    ELSE CommitCard(cs[index + 1], index, Len(cs)) \o CommitCards(cs, index + 1)

\* the document returned when there are no commits
EmptyDocument(ttl) ==
    <<EmptyDocHead>> \o escapeHTML(ttl) \o <<EmptyDocStyle>> \o escapeHTML(ttl)
    \o <<EmptyDocTail>>

\* the document returned when there are commits
PopulatedDocument(cs, ttl) ==
    <<DocHead>> \o escapeHTML(ttl) \o <<DocStyle>> \o escapeHTML(ttl)
    \o <<DocStats>> \o NumberToString(Len(cs)) \o <<DocCommitWord>>
    \o (IF Len(cs) # 1 THEN <<"s">> ELSE <<>>)
    \o <<DocList>> \o CommitCards(cs, 0) \o <<DocTail>>

formatCommitsHTML(cs, ttl) ==
    IF Len(cs) = 0 THEN EmptyDocument(ttl) ELSE PopulatedDocument(cs, ttl)

----------------------------------------------------------------------------
(* What the git subprocess prints for a history of entries, newest first, *)
(* under the --pretty=format string the history operations pass with -L:  *)
(* per entry the four header lines, a blank line, the subject, a blank    *)
(* line and the patch; entries are separated by a blank line.             *)

EntryLines(e) ==
    << CommitPrefix \o e.hash,
       AuthorPrefix \o e.author,
       DatePrefix \o e.date,
       BranchesPrefix \o e.refs,
       <<>>,
       e.subject,
       <<>> >> \o e.patch

RECURSIVE HistoryLines(_)
HistoryLines(entries) ==
    IF Len(entries) = 0 THEN <<>>
    ELSE IF Len(entries) = 1 THEN EntryLines(entries[1])
    ELSE EntryLines(entries[1]) \o << <<>> >> \o HistoryLines(Tail(entries))

GitLogOutput(entries) ==
    IF Len(entries) = 0 THEN <<>>
    ELSE Join(HistoryLines(entries), <<NL>>) \o <<NL>>

\* a patch as git log -L prints it
SamplePatch ==
    << DiffGitPrefix \o <<SP,"a","/","f",SP,"b","/","f">>,
       MinusPrefix \o <<SP,"a","/","f">>,
       PlusPrefix \o <<SP,"b","/","f">>,
       <<"@","@",SP,"-","1",SP,"+","1",SP,"@","@">>,
       <<"-","a">>,
       <<"+","a","<","b">> >>

\* the text of the injection scenario: <script>alert(1)</script>
ScriptText ==
    <<"<","s","c","r","i","p","t",">","a","l","e","r","t","(","1",")",
      "<","/","s","c","r","i","p","t",">">>

\* history entries the rendering is exercised on
SampleEntries ==
    { [hash |-> <<"a","b","c","1","2","3","4","f","0">>,
       author |-> <<"J","a","n","e",SP,"<","j","@","e",">">>,
       date |-> <<"2",SP,"d","a","y","s",SP,"a","g","o">>,
       refs |-> <<"m","a","i","n",",",SP,"o","/","m","a","i","n">>,
       subject |-> <<"F","i","x",SP,"b","u","g">>,
       patch |-> SamplePatch],
      [hash |-> <<"d","e","f","5","6","7","8","a","1">>,
       author |-> <<"O","'","N","e","i","l">>,
       date |-> <<"3",SP,"w","e","e","k","s",SP,"a","g","o">>,
       refs |-> <<>>,
       subject |-> ScriptText,
       patch |-> SamplePatch],
      [hash |-> <<"0","1","2","3","4","5","6","7","8">>,
       author |-> <<"B","o","b">>,
       date |-> <<"5",SP,"d","a","y","s",SP,"a","g","o">>,
       refs |-> <<"t","a","g",":",SP,"v","1">>,
       subject |-> CommitPrefix \o <<"<","b",">","&","x">>,
       patch |-> <<>>],
      [hash |-> <<"9","9","9","9","9","9","9","9","9">>,
       author |-> <<"A","l">>,
       date |-> <<"1",SP,"y","e","a","r",SP,"a","g","o">>,
       refs |-> <<"H","E","A","D">>,
       subject |-> <<"S","a","y",SP,"\"","h","i","\"">>,
       patch |-> <<>>] }

\* titles the commands build: for a line, and for a function (quoted name)
SampleTitles ==
    { <<"L","i","n","e",SP,"1",SP,"i","n",SP,"f",".","j","s">>,
      <<"f","u","n","c","t","i","o","n",SP,"\"","a","&","b","\"">> }

----------------------------------------------------------------------------
(* The history operations: getGitRoot, executeGit, getLineHistory,        *)
(* getFunctionHistory, searchCodeHistory                                  *)

\* JavaScript null
Null == "null"

\* the root git rev-parse --show-toplevel prints inside a repository
RepoRoot == "/repo"

\* the file whose history is asked for
FileName == <<"/","r","e","p","o","/","f",".","j","s">>

\* The argument string of a history query, by the parts that vary: the
\* -L start,end range, the -L :name: function, or the -S snippet.
RangeArgs(startLine, endLine) ==
    [kind |-> "range", start |-> startLine, end |-> endLine, text |-> <<>>]

FunctionArgs(functionName) ==
    [kind |-> "function", start |-> 0, end |-> 0, text |-> functionName]

SnippetArgs(codeSnippet) ==
    [kind |-> "snippet", start |-> 0, end |-> 0, text |-> codeSnippet]

NoArgs == [kind |-> "none", start |-> 0, end |-> 0, text |-> <<>>]

\* the errors the operations throw
NoError == [message |-> "", command |-> NoArgs]
NotAGitRepository == [message |-> "Not a git repository", command |-> NoArgs]
GitCommandFailed(args) == [message |-> "Git command failed: ", command |-> args]

\* results of a call: a returned value or a thrown error, and the queries
\* launched on the way
Returned(value, queries) ==
    [threw |-> FALSE, value |-> value, error |-> NoError, launched |-> queries]

Threw(error, queries) ==
    [threw |-> TRUE, value |-> <<>>, error |-> error, launched |-> queries]

\* getGitRoot: the trimmed output of git rev-parse, null when it fails
getGitRoot(revParse) == revParse

\* a root test that lets a missing root through
HasNoRootIgnored(gitRoot) == FALSE

\* the test if (!gitRoot)
HasNoRoot(gitRoot) == gitRoot = Null

\* executeGit: stdout of the subprocess, or the error thrown in its catch
executeGit(answers, args) ==
    IF answers[args].ok THEN Returned(answers[args].stdout, <<args>>)
    ELSE Threw(GitCommandFailed(args), <<args>>)

\* a catch block that rethrows without the single-line retry
LineHistoryNoFallback(answers, startLine, endLine, first) ==
    Threw(first.error, first.launched)

\* the catch block of getLineHistory
LineHistoryFallback(answers, startLine, endLine, first) ==
    IF startLine # endLine
    THEN LET second == executeGit(answers, RangeArgs(startLine, startLine))
         IN IF second.threw
            THEN Threw(second.error, first.launched \o second.launched)
            ELSE Returned(parseGitLog(second.value),
                          first.launched \o second.launched)
    ELSE Threw(first.error, first.launched)

getLineHistory(revParse, answers, startLine, endLine) ==
    IF HasNoRoot(getGitRoot(revParse)) THEN Threw(NotAGitRepository, <<>>)
    ELSE LET first == executeGit(answers, RangeArgs(startLine, endLine))
         IN IF first.threw
            THEN LineHistoryFallback(answers, startLine, endLine, first)
            ELSE Returned(parseGitLog(first.value), first.launched)

\* a query that is run a second time when it fails
RunQueryRetry(answers, args) ==
    LET run == executeGit(answers, args)
        again == executeGit(answers, args)
    IN IF ~run.threw THEN Returned(parseGitLog(run.value), run.launched)
       ELSE IF again.threw THEN Threw(again.error, run.launched \o again.launched)
       ELSE Returned(parseGitLog(again.value), run.launched \o again.launched)

\* the part getFunctionHistory and searchCodeHistory share after building
\* their arguments: one executeGit, its error propagating, then parseGitLog
RunQuery(answers, args) ==
    LET run == executeGit(answers, args)
    IN IF run.threw THEN run
       ELSE Returned(parseGitLog(run.value), run.launched)

getFunctionHistory(revParse, answers, functionName) ==
    IF HasNoRoot(getGitRoot(revParse)) THEN Threw(NotAGitRepository, <<>>)
    ELSE RunQuery(answers, FunctionArgs(functionName))

searchCodeHistory(revParse, answers, codeSnippet) ==
    IF HasNoRoot(getGitRoot(revParse)) THEN Threw(NotAGitRepository, <<>>)
    ELSE RunQuery(answers, SnippetArgs(codeSnippet))

----------------------------------------------------------------------------
(* getFunctionNameAtCursor and the regular expressions it tries *)
(* A pattern is a sequence of elements, matched as a backtracking matcher  *)
(* does: a literal, a greedy repetition of a character class (capturing or *)
(* not), or an optional group of alternatives tried in order before the    *)
(* empty alternative.                                                      *)

Lit(chars) == [t |-> "lit", s |-> chars, c |-> "", min |-> 0, cap |-> FALSE, alts |-> <<>>]
Rep(class, atLeast, capture) ==
    [t |-> "rep", s |-> <<>>, c |-> class, min |-> atLeast, cap |-> capture, alts |-> <<>>]
Opt(alternatives) ==
    [t |-> "opt", s |-> <<>>, c |-> "", min |-> 0, cap |-> FALSE, alts |-> alternatives]

\* \s, \w and [^)]
InClass(class, char) ==
    CASE class = "space" -> char \in Whitespace
      [] class = "word" -> char \in WordChars
      [] class = "notparen" -> char # ")"

\* length of the longest run of characters of the class that starts at pos
RunLength(class, text, pos) ==
    LET stops == {i \in pos..Len(text) : ~InClass(class, text[i])}
    IN IF stops = {} THEN Len(text) - pos + 1
       ELSE (CHOOSE i \in stops : \A j \in stops : i <= j) - pos

NoMatch == [ok |-> FALSE, cap |-> <<>>]

\* the first way, in backtracking order, the elements match the text at pos
RECURSIVE MatchHere(_, _, _, _)
MatchHere(elems, text, pos, cap) ==
    IF Len(elems) = 0 THEN [ok |-> TRUE, cap |-> cap]
    ELSE LET e == Head(elems)
             rest == Tail(elems)
         IN CASE e.t = "lit" ->
                   IF StartsWith(SubSeq(text, pos, Len(text)), e.s)
                   THEN MatchHere(rest, text, pos + Len(e.s), cap)
                   ELSE NoMatch
              [] e.t = "rep" ->
                   LET after(n) ==
                           MatchHere(rest, text, pos + n,
                                     IF e.cap THEN SubSeq(text, pos, pos + n - 1)
                                     ELSE cap)
                       good == {n \in e.min..RunLength(e.c, text, pos) : after(n).ok}
                   IN IF good = {} THEN NoMatch
                      ELSE after(CHOOSE n \in good : \A m \in good : n >= m)
              [] e.t = "opt" ->
                   LET try(k) == IF k <= Len(e.alts)
                                 THEN MatchHere(e.alts[k] \o rest, text, pos, cap)
                                 ELSE MatchHere(rest, text, pos, cap)
                       good == {k \in 1..(Len(e.alts) + 1) : try(k).ok}
                   IN IF good = {} THEN NoMatch
                      ELSE try(CHOOSE k \in good : \A m \in good : k <= m)

\* text.match(pattern) for a pattern without flags: the match at the
\* leftmost position that has one
Match(text, pattern) ==
    LET starts == {i \in 1..(Len(text) + 1) : MatchHere(pattern, text, i, <<>>).ok}
    IN IF starts = {} THEN NoMatch
       ELSE MatchHere(pattern, text,
                      CHOOSE i \in starts : \A j \in starts : i <= j, <<>>)

OptionalAsync == Opt(<< <<Lit(<<"a","s","y","n","c">>), Rep("space", 0, FALSE)>> >>)

\* the patterns array, in order
Patterns ==
    << \* /function\s+(\w+)\s*\(/
       << Lit(<<"f","u","n","c","t","i","o","n">>), Rep("space", 1, FALSE),
          Rep("word", 1, TRUE), Rep("space", 0, FALSE), Lit(<<"(">>) >>,
       \* /const\s+(\w+)\s*=\s*(?:async\s*)?\(/
       << Lit(<<"c","o","n","s","t">>), Rep("space", 1, FALSE),
          Rep("word", 1, TRUE), Rep("space", 0, FALSE), Lit(<<"=">>),
          Rep("space", 0, FALSE), OptionalAsync, Lit(<<"(">>) >>,
       \* /(\w+)\s*:\s*(?:async\s*)?function/
       << Rep("word", 1, TRUE), Rep("space", 0, FALSE), Lit(<<":">>),
          Rep("space", 0, FALSE), OptionalAsync,
          Lit(<<"f","u","n","c","t","i","o","n">>) >>,
       \* /(?:public|private|protected)?\s*(\w+)\s*\([^)]*\)\s*{/
       << Opt(<< <<Lit(<<"p","u","b","l","i","c">>)>>,
                 <<Lit(<<"p","r","i","v","a","t","e">>)>>,
                 <<Lit(<<"p","r","o","t","e","c","t","e","d">>)>> >>),
          Rep("space", 0, FALSE), Rep("word", 1, TRUE), Rep("space", 0, FALSE),
          Lit(<<"(">>), Rep("notparen", 0, FALSE), Lit(<<")">>),
          Rep("space", 0, FALSE), Lit(<<"{">>) >>,
       \* /def\s+(\w+)\s*\(/
       << Lit(<<"d","e","f">>), Rep("space", 1, FALSE), Rep("word", 1, TRUE),
          Rep("space", 0, FALSE), Lit(<<"(">>) >>,
       \* /fn\s+(\w+)\s*\(/
       << Lit(<<"f","n">>), Rep("space", 1, FALSE), Rep("word", 1, TRUE),
          Rep("space", 0, FALSE), Lit(<<"(">>) >> >>

\* A name that is null, undefined or '' (all of them falsy) is the empty text.
NoName == <<>>

\* a loop that keeps going and returns what the last matching pattern captured
getFunctionNameLastPattern(text) ==
    LET hits == {k \in 1..Len(Patterns) : Match(text, Patterns[k]).ok}
    IN IF hits = {} THEN NoName
       ELSE Match(text, Patterns[CHOOSE k \in hits : \A m \in hits : k >= m]).cap

\* the loop over the patterns: match[1] of the first pattern that matches
getFunctionNameAtCursor(text) ==
    LET hits == {k \in 1..Len(Patterns) : Match(text, Patterns[k]).ok}
    IN IF hits = {} THEN NoName
       ELSE Match(text, Patterns[CHOOSE k \in hits : \A m \in hits : k <= m]).cap

----------------------------------------------------------------------------
(* The commands and the panel *)

NoEditor == [present |-> FALSE, fileName |-> <<>>, line |-> 0, text |-> <<>>]

\* path.basename: what follows the last separator
Basename(path) == Split(path, <<"/">>)[Len(Split(path, <<"/">>))]

\* `History for Line ${line} in ${path.basename(fileName)}`
LineTitle(line, fileName) ==
    <<"H","i","s","t","o","r","y",SP,"f","o","r",SP,"L","i","n","e",SP>>
    \o NumberToString(line) \o <<SP,"i","n",SP>> \o Basename(fileName)

\* showCommitsPanel: the panel created and its html
CommitsPanel(cs, ttl) == [title |-> ttl, html |-> formatCommitsHTML(cs, ttl)]

\* `History for function "${functionName}" in ${path.basename(fileName)}`
FunctionTitle(functionName, fileName) ==
    <<"H","i","s","t","o","r","y",SP,"f","o","r",SP,
      "f","u","n","c","t","i","o","n",SP,"\"">>
    \o functionName \o <<"\"",SP,"i","n",SP>> \o Basename(fileName)

\* messages of showErrorMessage and showInformationMessage: the fixed text
\* and what is interpolated after it (an error's message, a function name)
NoEditorMessage ==
    [level |-> "error", text |-> "No active editor", error |-> NoError, name |-> NoName]
ErrorMessage(error) ==
    [level |-> "error", text |-> "Error: ", error |-> error, name |-> NoName]
SearchingMessage ==
    [level |-> "info", text |-> "Searching git history...", error |-> NoError,
     name |-> NoName]
TrackingMessage(functionName) ==
    [level |-> "info", text |-> "Tracking history for function: ", error |-> NoError,
     name |-> functionName]

----------------------------------------------------------------------------
(* provideHover *)
(* The preview is a sequence like the document: single characters that an  *)
(* interpolation put there, and values standing for the fixed markdown.    *)

HoverHeading == "### [memo] Line History [break]"
HoverLastModified == "**Last modified:** "
HoverCommit == "[break]**Commit:** [tick]"
HoverAuthor == "[tick][break]**Author:** "
HoverMessage == "[break]**Message:** "
HoverTotal == "[break]---[break]*Total commits affecting this line: "
HoverTail == "*[break]Right-click for full history"

\* number of characters of the hash a preview shows: hash.substring(0, 8)
HoverHashChars == 8

\* what a bare return yields: undefined
Nothing == <<>>

\* new vscode.Hover(markdown) for a history that has commits
HoverMarkdown(cs) ==
    LET latestCommit == cs[1]
        totalCommits == Len(cs)
    IN <<HoverHeading, HoverLastModified>> \o latestCommit.date
       \o <<HoverCommit>> \o Substring0(latestCommit.hash, HoverHashChars)
       \o <<HoverAuthor>> \o latestCommit.author
       \o <<HoverMessage>> \o latestCommit.message
       \o <<HoverTotal>> \o NumberToString(totalCommits) \o <<HoverTail>>

\* the body of the try block
HoverTry(revParse, answers, positionLine) ==
    IF HasNoRoot(getGitRoot(revParse)) THEN Returned(Nothing, <<>>)
    ELSE LET line == positionLine + 1
             history == getLineHistory(revParse, answers, line, line)
         IN IF history.threw THEN history
            ELSE IF Len(history.value) = 0
            THEN Returned(Nothing, history.launched)
            ELSE Returned(HoverMarkdown(history.value), history.launched)

\* a handler without its catch block: what the try block threw escapes
HoverNoCatch(attempt) == attempt

\* the catch block: whatever was thrown, return nothing
HoverCatch(attempt) ==
    LET tried == attempt
    IN IF tried.threw THEN Returned(Nothing, tried.launched) ELSE tried

provideHover(revParse, answers, positionLine) ==
    HoverCatch(HoverTry(revParse, answers, positionLine))

----------------------------------------------------------------------------
(* Inputs of the host and its state before anything is invoked *)

\* the line under the cursor: declarations the patterns know, and others
SampleLineTexts ==
    { <<"f","u","n","c","t","i","o","n",SP,"c","a","l","c","u","l","a","t","e",
        "T","o","t","a","l","(","i","t","e","m","s",")",SP,"{">>,
      <<"c","o","n","s","t",SP,"x",SP,"=",SP,"5",";">>,
      <<SP,SP,"p","r","i","v","a","t","e",SP,"r","u","n","(","a",")",SP,"{">>,
      <<"x",":",SP,"f","u","n","c","t","i","o","n",SP,"(","a",")",SP,"{">>,
      <<"d","e","f",SP,"f","(","x",")",":">>,
      <<"f","n",SP,"g","(","a",")">>,
      <<"c","o","n","s","t",SP,"h",SP,"=",SP,"a","s","y","n","c",SP,"(","a",")",
        SP,"=",">">> }

\* function names and snippets the operations are called with
SampleNames == { <<"f">>, <<"c","a","l","c">> }
SampleSnippets == { <<"x","=","1">> }

\* histories git may print: none, one entry, two entries
SampleHistories ==
    { <<>>,
      <<CHOOSE e \in SampleEntries : e.subject = ScriptText>>,
      <<CHOOSE e \in SampleEntries : e.refs = <<"H","E","A","D">>,
        CHOOSE e \in SampleEntries : e.author = <<"O","'","N","e","i","l">> >> }

\* what one query can come to: failure, or success with some output
GitAnswers ==
    {[ok |-> FALSE, stdout |-> <<>>]}
        \cup {[ok |-> TRUE, stdout |-> GitLogOutput(h)] : h \in SampleHistories}

\* the repository was asked nothing yet
NoAnswers == [q \in {} |-> [ok |-> FALSE, stdout |-> <<>>]]

NoCall == [name |-> "none", args |-> NoArgs]
NoOutcome == Returned(<<>>, <<>>)

\* the host before anything is invoked; no repository state chosen
HostIdle ==
    /\ toplevel = Null
    /\ git = NoAnswers
    /\ editor = NoEditor
    /\ call = NoCall
    /\ launched = <<>>
    /\ outcome = NoOutcome
    /\ messages = <<>>
    /\ panels = <<>>
    /\ hpc = "idle"
    /\ hovers = <<>>

PipeIdle ==
    /\ output = <<>>
    /\ commits = <<>>
    /\ title = <<>>
    /\ html = <<>>
    /\ pc = "none"

----------------------------------------------------------------------------
(* The parser on its own: any text of at most MaxLines lines over RawLines *)

RawLines ==
    { <<>>,                                              \* blank line
      CommitPrefix \o <<"a","1">>,                       \* commit a1
      AuthorPrefix \o <<"J">>,                           \* Author: J
      DiffGitPrefix \o <<SP,"f">>,                       \* diff --git f
      MinusPrefix \o <<SP,"f">>,                         \* --- f
      <<"+","x">>,                                       \* +x
      <<"F","i","x">>,                                   \* Fix
      <<SP,SP,"m","o","r","e">>,                         \* "  more"
      <<SP,BULLET,SP,"i">> }                             \* " (bullet) i"

InitParse ==
    /\ \E n \in 0..MaxLines : \E ls \in [1..n -> RawLines] :
           output = Join(ls, <<NL>>)
    /\ commits = <<>>
    /\ title = <<>>
    /\ html = <<>>
    /\ pc = "raw"
    /\ HostIdle

\* the call parseGitLog(output)
Parse ==
    /\ pc = "raw"
    /\ commits' = parseGitLog(output)
    /\ pc' = "parsed"
    /\ UNCHANGED <<output, title, html, hostVars>>

NextParse == Parse

SpecParse == InitParse /\ [][NextParse]_vars

----------------------------------------------------------------------------
(* The parser on header lines: any text of at most MaxLines lines over     *)
(* HeaderLines, and the text git prints for a history of two entries       *)

HeaderLines ==
    { <<>>,                                              \* blank line
      CommitPrefix \o <<"a","1">>,                       \* commit a1
      AuthorPrefix \o <<"J">>,                           \* Author: J
      AuthorPrefix \o <<SP,"K",SP>>,                     \* "Author:  K "
      DatePrefix \o <<"2",SP,"d">>,                      \* Date: 2 d
      BranchesPrefix \o <<"m",",",SP,"o">>,              \* Branches: m, o
      MinusPrefix \o <<SP,"f">>,                         \* --- f
      <<"F","i","x">> }                                  \* Fix

\* git's output for two entries, the first one Jane's 'Fix bug'
ScenarioText ==
    GitLogOutput(<<CHOOSE e \in SampleEntries : e.subject = <<"F","i","x",SP,"b","u","g">>,
                   CHOOSE e \in SampleEntries : e.author = <<"B","o","b">> >>)

InitHeaders ==
    /\ \/ \E n \in 0..MaxLines : \E ls \in [1..n -> HeaderLines] :
              output = Join(ls, <<NL>>)
       \/ output = ScenarioText
    /\ commits = <<>>
    /\ title = <<>>
    /\ html = <<>>
    /\ pc = "raw"
    /\ HostIdle

SpecHeaders == InitHeaders /\ [][NextParse]_vars

----------------------------------------------------------------------------
(* Parsing and rendering of git's output for up to MaxEntries entries *)

InitRender ==
    /\ \E n \in 0..MaxEntries : \E es \in [1..n -> SampleEntries] :
           output = GitLogOutput(es)
    /\ title \in SampleTitles
    /\ commits = <<>>
    /\ html = <<>>
    /\ pc = "raw"
    /\ HostIdle

\* Parse on the raw text, the title kept for the rendering
ParseOutput ==
    /\ pc = "raw"
    /\ commits' = parseGitLog(output)
    /\ pc' = "parsed"
    /\ UNCHANGED <<output, title, html, hostVars>>

\* the call formatCommitsHTML(commits, title) of showCommitsPanel
Render ==
    /\ pc = "parsed"
    /\ html' = formatCommitsHTML(commits, title)
    /\ pc' = "rendered"
    /\ UNCHANGED <<output, commits, title, hostVars>>

NextRender == ParseOutput \/ Render

SpecRender == InitRender /\ [][NextRender]_vars

----------------------------------------------------------------------------
(* The operations and the command invoked on a repository state *)

InitHost ==
    /\ PipeIdle
    /\ toplevel \in {Null, RepoRoot}
    /\ git = NoAnswers
    /\ editor \in {NoEditor}
                    \cup {[present |-> TRUE, fileName |-> FileName, line |-> l,
                           text |-> t] :
                             l \in 0..(MaxLine - 1), t \in SampleLineTexts}
    /\ call = NoCall
    /\ launched = <<>>
    /\ outcome = NoOutcome
    /\ messages = <<>>
    /\ panels = <<>>
    /\ hpc = "idle"
    /\ hovers = <<>>

\* an operation called directly; its result is kept as the outcome
Finish(name, args, result) ==
    /\ call' = [name |-> name, args |-> args]
    /\ launched' = result.launched
    /\ outcome' = result
    /\ hpc' = "done"

\* In each action the repository's answers to the queries the call can make
\* are an input, chosen here and kept in git.  The history of the repository
\* does not change during a behaviour: a query that was answered before gets
\* the same answer again.
Asked(answers) ==
    /\ \A q \in DOMAIN answers \cap DOMAIN git : answers[q] = git[q]
    /\ git' = [q \in DOMAIN answers \cup DOMAIN git |->
                  IF q \in DOMAIN git THEN git[q] ELSE answers[q]]

CallGetLineHistory(startLine, endLine) ==
    /\ hpc = "idle"
    /\ \E answers \in [{RangeArgs(startLine, endLine),
                        RangeArgs(startLine, startLine)} -> GitAnswers] :
           /\ Asked(answers)
           /\ Finish("getLineHistory", RangeArgs(startLine, endLine),
                     getLineHistory(toplevel, answers, startLine, endLine))
    /\ UNCHANGED <<pipeVars, toplevel, editor, messages, panels, hovers>>

CallGetFunctionHistory(functionName) ==
    /\ hpc = "idle"
    /\ \E answers \in [{FunctionArgs(functionName)} -> GitAnswers] :
           /\ Asked(answers)
           /\ Finish("getFunctionHistory", FunctionArgs(functionName),
                     getFunctionHistory(toplevel, answers, functionName))
    /\ UNCHANGED <<pipeVars, toplevel, editor, messages, panels, hovers>>

CallSearchCodeHistory(codeSnippet) ==
    /\ hpc = "idle"
    /\ \E answers \in [{SnippetArgs(codeSnippet)} -> GitAnswers] :
           /\ Asked(answers)
           /\ Finish("searchCodeHistory", SnippetArgs(codeSnippet),
                     searchCodeHistory(toplevel, answers, codeSnippet))
    /\ UNCHANGED <<pipeVars, toplevel, editor, messages, panels, hovers>>

\* the handler of codeHistoryTracker.showLineHistory
LineHistoryCommand ==
    /\ hpc = "idle"
    /\ IF ~editor.present
       THEN /\ messages' = Append(messages, NoEditorMessage)
            /\ call' = [name |-> "lineHistoryCommand", args |-> NoArgs]
            /\ UNCHANGED <<git, launched, outcome, panels>>
       ELSE LET line == editor.line + 1
            IN \E answers \in [{RangeArgs(line, line)} -> GitAnswers] :
                   LET result == getLineHistory(toplevel, answers, line, line)
                   IN /\ Asked(answers)
                      /\ call' = [name |-> "lineHistoryCommand",
                                  args |-> RangeArgs(line, line)]
                      /\ launched' = result.launched
                      /\ outcome' = result
                      /\ IF result.threw
                         THEN /\ messages' = messages \o
                                     <<SearchingMessage, ErrorMessage(result.error)>>
                              /\ panels' = panels
                         ELSE /\ messages' = Append(messages, SearchingMessage)
                              /\ panels' = Append(panels,
                                     CommitsPanel(result.value,
                                                  LineTitle(line, editor.fileName)))
    /\ hpc' = "done"
    /\ UNCHANGED <<pipeVars, toplevel, editor, hovers>>

\* a command whose catch block shows nothing: the error goes unreported
TrackFunctionUnreported(functionName) ==
    \E answers \in [{FunctionArgs(functionName)} -> GitAnswers] :
        LET result == getFunctionHistory(toplevel, answers, functionName)
        IN /\ Asked(answers)
           /\ call' = [name |-> "functionHistoryCommand",
                       args |-> FunctionArgs(functionName)]
           /\ launched' = result.launched
           /\ outcome' = result
           /\ messages' = Append(messages, TrackingMessage(functionName))
           /\ panels' = IF result.threw THEN panels
                        ELSE Append(panels,
                                 CommitsPanel(result.value,
                                     FunctionTitle(functionName, editor.fileName)))
           /\ hpc' = "done"

\* functionHistoryCommand from the point where it has a name: the message,
\* getFunctionHistory, then the panel or the error message
TrackFunction(functionName) ==
    \E answers \in [{FunctionArgs(functionName)} -> GitAnswers] :
        LET result == getFunctionHistory(toplevel, answers, functionName)
        IN /\ Asked(answers)
           /\ call' = [name |-> "functionHistoryCommand",
                       args |-> FunctionArgs(functionName)]
           /\ launched' = result.launched
           /\ outcome' = result
           /\ IF result.threw
              THEN /\ messages' = messages \o
                          <<TrackingMessage(functionName), ErrorMessage(result.error)>>
                   /\ panels' = panels
              ELSE /\ messages' = Append(messages, TrackingMessage(functionName))
                   /\ panels' = Append(panels,
                          CommitsPanel(result.value,
                                       FunctionTitle(functionName, editor.fileName)))
           /\ hpc' = "done"

\* the handler of codeHistoryTracker.showFunctionHistory, up to its end or
\* to the await of showInputBox
FunctionHistoryCommand ==
    /\ hpc = "idle"
    /\ IF ~editor.present
       THEN /\ messages' = Append(messages, NoEditorMessage)
            /\ call' = [name |-> "functionHistoryCommand", args |-> NoArgs]
            /\ hpc' = "done"
            /\ UNCHANGED <<git, launched, outcome, panels>>
       ELSE IF getFunctionNameAtCursor(editor.text) # NoName
       THEN TrackFunction(getFunctionNameAtCursor(editor.text))
       ELSE /\ call' = [name |-> "functionHistoryCommand", args |-> NoArgs]
            /\ hpc' = "prompt"
            /\ UNCHANGED <<git, launched, outcome, messages, panels>>
    /\ UNCHANGED <<pipeVars, toplevel, editor, hovers>>

\* a handler that goes on with whatever the input box gave, even nothing
InputBoxResolvedUnchecked(functionName) ==
    /\ hpc = "prompt"
    /\ TrackFunction(functionName)
    /\ UNCHANGED <<pipeVars, toplevel, editor, hovers>>

\* showInputBox resolves, with a name or with nothing, and the handler resumes
InputBoxResolved(functionName) ==
    /\ hpc = "prompt"
    /\ IF functionName = NoName
       THEN /\ hpc' = "done"
            /\ UNCHANGED <<git, call, launched, outcome, messages, panels>>
       ELSE TrackFunction(functionName)
    /\ UNCHANGED <<pipeVars, toplevel, editor, hovers>>

NextHost ==
    \/ \E s \in 1..MaxLine, e \in 1..MaxLine : CallGetLineHistory(s, e)
    \/ \E n \in SampleNames : CallGetFunctionHistory(n)
    \/ \E t \in SampleSnippets : CallSearchCodeHistory(t)
    \/ LineHistoryCommand
    \/ FunctionHistoryCommand
    \/ \E n \in SampleNames \cup {NoName} : InputBoxResolved(n)

SpecHost == InitHost /\ [][NextHost]_vars

----------------------------------------------------------------------------
(* Hover requests next to the function command, on one repository state *)

\* most hover requests of one behaviour
MaxHovers == 2

\* the line under the cursor when hovers and a command meet: one the
\* heuristic finds a name in, and one that makes the command prompt
HoverLineTexts ==
    { <<"f","u","n","c","t","i","o","n",SP,"c","a","l","c","u","l","a","t","e",
        "T","o","t","a","l","(","i","t","e","m","s",")",SP,"{">>,
      <<"c","o","n","s","t",SP,"x",SP,"=",SP,"5",";">> }

\* the 0-based lines of the file a hover is requested for
HoverLines == {0, 1}

InitHover ==
    /\ InitHost
    /\ editor.present => (editor.line = 0 /\ editor.text \in HoverLineTexts)

\* a hover provider that asks for the range from the line to the next one
ProvideHoverRange(positionLine) ==
    /\ Len(hovers) < MaxHovers
    /\ \E answers \in [{RangeArgs(positionLine + 1, positionLine + 2),
                        RangeArgs(positionLine + 1, positionLine + 1)} -> GitAnswers] :
           LET line == positionLine + 1
               history == getLineHistory(toplevel, answers, line, line + 1)
           IN /\ Asked(answers)
              /\ hovers' = Append(hovers,
                     [line |-> positionLine, atPrompt |-> hpc = "prompt",
                      result |-> HoverCatch(
                          IF HasNoRoot(getGitRoot(toplevel))
                          THEN Returned(Nothing, <<>>)
                          ELSE IF history.threw THEN history
                          ELSE IF Len(history.value) = 0
                          THEN Returned(Nothing, history.launched)
                          ELSE Returned(HoverMarkdown(history.value),
                                        history.launched))])
    /\ UNCHANGED <<pipeVars, toplevel, editor, call, launched, outcome, messages,
                   panels, hpc>>

\* a hover provider that leaves the queries it launched where the commands
\* keep theirs
ProvideHoverSharing(positionLine) ==
    /\ Len(hovers) < MaxHovers
    /\ \E answers \in [{RangeArgs(positionLine + 1, positionLine + 1)} -> GitAnswers] :
           LET result == provideHover(toplevel, answers, positionLine)
           IN /\ Asked(answers)
              /\ hovers' = Append(hovers,
                     [line |-> positionLine, atPrompt |-> hpc = "prompt", result |-> result])
              /\ launched' = launched \o result.launched
    /\ UNCHANGED <<pipeVars, toplevel, editor, call, outcome, messages, panels, hpc>>

\* a hover request for a 0-based line of the file, answered by provideHover;
\* the request is kept with whether the command was waiting at its prompt
ProvideHover(positionLine) ==
    /\ Len(hovers) < MaxHovers
    /\ \E answers \in [{RangeArgs(positionLine + 1, positionLine + 1)} -> GitAnswers] :
           /\ Asked(answers)
           /\ hovers' = Append(hovers,
                  [line |-> positionLine, atPrompt |-> hpc = "prompt",
                   result |-> provideHover(toplevel, answers, positionLine)])
    /\ UNCHANGED <<pipeVars, toplevel, editor, call, launched, outcome, messages,
                   panels, hpc>>

NextHover ==
    \/ \E l \in HoverLines : ProvideHover(l)
    \/ FunctionHistoryCommand
    \/ \E n \in SampleNames \cup {NoName} : InputBoxResolved(n)

SpecHover == InitHover /\ [][NextHover]_vars

----------------------------------------------------------------------------
(* The two entry points that call getLineHistory: hover requests and the   *)
(* line-history command, on one repository state                           *)

\* the line under the cursor does not matter to a line history
InitEntry ==
    /\ InitHost
    /\ editor.present => editor.text = <<"c","o","n","s","t",SP,"x",SP,"=",SP,"5",";">>

NextEntry ==
    \/ \E l \in HoverLines : ProvideHover(l)
    \/ LineHistoryCommand

SpecEntry == InitEntry /\ [][NextEntry]_vars

----------------------------------------------------------------------------
(* Reference notions the statements about parseGitLog are phrased in *)

\* the lines of a text
TextLines(text) == Split(text, <<NL>>)

\* number of record markers in a text: lines beginning with 'commit '
MarkerCount(text) ==
    Cardinality({i \in 1..Len(TextLines(text)) :
                    StartsWith(TextLines(text)[i], CommitPrefix)})

\* the fragment (sequence of lines) the k-th emitted record was parsed from
Fragment(text, k) == BlockLines(CommitBlocks(text)[k])

\* index of the first diff-marker line of a fragment, 0 when it has none
FirstDiffMarker(lines) ==
    LET ds == {i \in 1..Len(lines) : IsDiffMarker(lines[i])}
    IN IF ds = {} THEN 0 ELSE CHOOSE i \in ds : \A j \in ds : i <= j

\* the lines of a fragment that precede diff mode
HeaderPart(lines) ==
    IF FirstDiffMarker(lines) = 0 THEN lines
    ELSE SubSeq(lines, 1, FirstDiffMarker(lines) - 1)

\* the lines of a fragment that follow its first diff-marker line
DiffPart(lines) ==
    IF FirstDiffMarker(lines) = 0 THEN <<>>
    ELSE SubSeq(lines, FirstDiffMarker(lines) + 1, Len(lines))

IsHeaderLine(line) ==
    \/ StartsWith(line, CommitPrefix)
    \/ StartsWith(line, AuthorPrefix)
    \/ StartsWith(line, DatePrefix)
    \/ StartsWith(line, BranchesPrefix)

\* the author the header part of a fragment assigns: its last Author line
AuthorOf(lines) ==
    LET as == {i \in 1..Len(lines) : StartsWith(lines[i], AuthorPrefix)}
    IN IF as = {} THEN <<>>
       ELSE Trim(RemoveFirst(lines[CHOOSE i \in as : \A j \in as : i >= j],
                             AuthorPrefix))

IsMessageLine(line) == ~IsHeaderLine(line) /\ Trim(line) # <<>>

\* the trimmed message lines of a header part, in order
RECURSIVE MessageWords(_)
MessageWords(lines) ==
    IF Len(lines) = 0 THEN <<>>
    ELSE (IF IsMessageLine(lines[1]) THEN <<Trim(lines[1])>> ELSE <<>>)
             \o MessageWords(Tail(lines))

----------------------------------------------------------------------------
(* Claims about parseGitLog, checked under SpecParse *)

\* C1: a raw text with exactly N record markers (lines beginning with
\* 'commit ') parses to exactly N records, whatever else it contains.
C1_RecordCountIsMarkerCount ==
    pc = "parsed" => Len(commits) = MarkerCount(output)

\* C2: within a fragment, an 'Author: ' line that follows the first
\* diff-marker line is appended to the diff text and leaves the author field
\* as the header part set it.
C2_DiffModeSticky ==
    pc = "parsed" =>
        \A k \in 1..Len(commits) :
            LET lines == Fragment(output, k)
            IN \A j \in 1..Len(lines) :
                   ( /\ FirstDiffMarker(lines) > 0
                     /\ j > FirstDiffMarker(lines)
                     /\ StartsWith(lines[j], AuthorPrefix) )
                   => /\ commits[k].author = AuthorOf(HeaderPart(lines))
                      /\ \E i \in 1..Len(TextLines(commits[k].diff)) :
                             TextLines(commits[k].diff)[i] = lines[j]

\* C3: the diff text of every record is the newline-join, in order, of all
\* lines of its fragment that follow the first diff-marker line.
C3_DiffIsTailOfFragment ==
    pc = "parsed" =>
        \A k \in 1..Len(commits) :
            commits[k].diff = Join(DiffPart(Fragment(output, k)), <<NL>>)

\* C4: before diff mode every non-header line with text (indented or not,
\* bulleted or not) is folded, trimmed and space-joined, into the summary.
C4_SummaryFoldsEveryLine ==
    pc = "parsed" =>
        \A k \in 1..Len(commits) :
            Trim(commits[k].message)
                = Join(MessageWords(HeaderPart(Fragment(output, k))), <<SP>>)

----------------------------------------------------------------------------
(* Reading a rendered document back *)

\* the five characters escapeHTML is there to remove, and what it writes
SpecialChars == {"&", "<", ">", "'", "\""}

Entities ==
    { <<"&","a","m","p",";">>, <<"&","l","t",";">>, <<"&","g","t",";">>,
      <<"&","#","3","9",";">>, <<"&","q","u","o","t",";">> }

\* position i of the document holds a special character as raw text
RawSpecialAt(doc, i) ==
    /\ doc[i] \in SpecialChars
    /\ ~ (doc[i] = "&" /\ \E e \in Entities :
                             StartsWith(SubSeq(doc, i, Len(doc)), e))

\* the cards of a document, in document order: what follows each CardOpen
Cards(doc) == Tail(Split(doc, <<CardOpen>>))

\* the interpolated text that starts a stretch, up to the next piece of template
TextUpToTemplate(stretch) ==
    LET ts == {i \in 1..Len(stretch) : stretch[i] \in TemplateTokens}
    IN IF ts = {} THEN stretch
       ELSE SubSeq(stretch, 1, (CHOOSE i \in ts : \A j \in ts : i <= j) - 1)

\* the interpolated text that follows template piece tok in a card
TextAfter(card, tok) ==
    TextUpToTemplate(SubSeq(card, IndexOf(card, <<tok>>) + 1, Len(card)))

\* the sequence number a card shows, as digits and as a number
CardNumberText(card) == TextUpToTemplate(card)

RECURSIVE DecimalValue(_)
DecimalValue(digits) ==
    IF Len(digits) = 0 THEN 0
    ELSE 10 * DecimalValue(SubSeq(digits, 1, Len(digits) - 1))
             + ((CHOOSE d \in 1..10 : DigitChars[d] = digits[Len(digits)]) - 1)

\* <script>alert(1)</script> with its angle brackets written as entities
EscapedScriptText ==
    <<"&","l","t",";","s","c","r","i","p","t","&","g","t",";",
      "a","l","e","r","t","(","1",")",
      "&","l","t",";","/","s","c","r","i","p","t","&","g","t",";">>

----------------------------------------------------------------------------
(* Claims about formatCommitsHTML, checked under SpecRender *)

\* C5: every character the document takes from the title or from a record
\* field went through escapeHTML: no raw & < > ' " from a field is in it.
C5_EveryFieldEscaped ==
    pc = "rendered" => \A i \in 1..Len(html) : ~RawSpecialAt(html, i)

\* C6: when a record's summary is <script>alert(1)</script>, the document
\* holds no occurrence of that text; the summary paragraph of the record's
\* card shows it with each < and > written as &lt; and &gt;.
C6_ScriptSummaryEscaped ==
    pc = "rendered" =>
        \A k \in 1..Len(commits) :
            commits[k].message = ScriptText
            => /\ IndexOf(html, ScriptText) = 0
               /\ TextAfter(Cards(html)[k], CardMessage) = EscapedScriptText

C6_Witness ==
    /\ pc = "rendered"
    /\ \E k \in 1..Len(commits) : commits[k].message = ScriptText

\* C7 as stated: of a two-record history, newest first, the card of the
\* oldest record is numbered #2 and the card of the newest #1, each card
\* showing its own record's date.
C7_OldestIsNumberTwo ==
    (pc = "rendered" /\ Len(commits) = 2) =>
        /\ Len(Cards(html)) = 2
        /\ CardNumberText(Cards(html)[2]) = <<"2">>
        /\ CardNumberText(Cards(html)[1]) = <<"1">>
        /\ \A k \in 1..2 :
               TextAfter(Cards(html)[k], CardDate) = escapeHTML(commits[k].date)

\* C7 amended: of a two-record history, newest first, the card of the newest
\* record (the first) is numbered #2 and the card of the oldest (the second)
\* #1, each card showing its own record's date.
C7_NewestIsNumberTwo ==
    (pc = "rendered" /\ Len(commits) = 2) =>
        /\ Len(Cards(html)) = 2
        /\ CardNumberText(Cards(html)[1]) = <<"2">>
        /\ CardNumberText(Cards(html)[2]) = <<"1">>
        /\ \A k \in 1..2 :
               TextAfter(Cards(html)[k], CardDate) = escapeHTML(commits[k].date)

C7_Witness ==
    /\ pc = "rendered"
    /\ Len(commits) = 2
    /\ commits[1].date # commits[2].date
    /\ commits[1].date # <<>>
    /\ commits[2].date # <<>>

\* C8: the card of the record at 0-based position index of totalCount records
\* shows the number totalCount - index; over the document the numbers are
\* totalCount down to 1, one card per record.
C8_SequenceNumbersDescend ==
    (pc = "rendered" /\ Len(commits) > 0) =>
        /\ Len(Cards(html)) = Len(commits)
        /\ \A index \in 0..(Len(commits) - 1) :
               DecimalValue(CardNumberText(Cards(html)[index + 1]))
                   = Len(commits) - index
        /\ {DecimalValue(CardNumberText(Cards(html)[i])) : i \in 1..Len(commits)}
               = 1..Len(commits)

C8_Witness ==
    /\ pc = "rendered"
    /\ Len(commits) >= 3
    /\ Len(Cards(html)) = Len(commits)

----------------------------------------------------------------------------
(* Claims about the history operations, checked under SpecHost *)

\* C9: when getLineHistory's query for a range with startLine # endLine
\* fails, the query is retried once for (startLine, startLine); the retry's
\* parsed records are returned if it succeeds, and the retry's failure, not
\* the first one, is thrown if it fails.
C9_RangeFallback ==
    ( /\ hpc = "done"
      /\ call.name = "getLineHistory"
      /\ call.args.start # call.args.end
      /\ toplevel # Null
      /\ ~git[call.args].ok )
    => LET single == RangeArgs(call.args.start, call.args.start)
       IN /\ launched = <<call.args, single>>
          /\ git[single].ok
                => /\ ~outcome.threw
                   /\ outcome.value = parseGitLog(git[single].stdout)
          /\ ~git[single].ok
                => /\ outcome.threw
                   /\ outcome.error = GitCommandFailed(single)
                   /\ outcome.error # GitCommandFailed(call.args)

C9_Witness ==
    /\ hpc = "done"
    /\ call.name = "getLineHistory"
    /\ call.args.start # call.args.end
    /\ toplevel # Null
    /\ ~git[call.args].ok
    /\ git[RangeArgs(call.args.start, call.args.start)].ok
    /\ Len(launched) = 2
    /\ Len(outcome.value) = 2

\* C10: when root resolution yields none, getLineHistory, getFunctionHistory
\* and searchCodeHistory throw 'Not a git repository', not a git command
\* failure, with no history query launched; a panel command that got as far
\* as its history operation shows that error as an error message, the only
\* one, and opens no panel.
C10_NotARepository ==
    (hpc = "done" /\ toplevel = Null) =>
        /\ launched = <<>>
        /\ call.name \in {"getLineHistory", "getFunctionHistory", "searchCodeHistory"}
              => /\ outcome.threw
                 /\ outcome.error = NotAGitRepository
        /\ ( /\ call.name \in {"lineHistoryCommand", "functionHistoryCommand"}
             /\ call.args # NoArgs )
              => /\ panels = <<>>
                 /\ {m \in 1..Len(messages) : messages[m].level = "error"}
                        = {Len(messages)}
                 /\ messages[Len(messages)] = ErrorMessage(NotAGitRepository)

C10_Witness ==
    /\ hpc = "done"
    /\ toplevel = Null
    /\ call.name = "lineHistoryCommand"
    /\ editor.present
    /\ outcome.error = NotAGitRepository
    /\ Len(messages) = 2

----------------------------------------------------------------------------
(* A claim about the header fields, checked under SpecHeaders *)

\* what follows a prefix on the last line that starts with it, trimmed;
\* empty when no line starts with it
HeaderValue(lines, prefix) ==
    LET at == {i \in 1..Len(lines) : StartsWith(lines[i], prefix)}
    IN IF at = {} THEN <<>>
       ELSE LET last == lines[CHOOSE i \in at : \A j \in at : i >= j]
            IN Trim(SubSeq(last, Len(prefix) + 1, Len(last)))

\* C15: each of the four header fields of a record is what follows its
\* prefix, trimmed, on the header line of the record's fragment; when the
\* fragment has several lines with that prefix the last one gives the value;
\* when it has none the field is the empty string.  For git's output of
\* Jane's 'Fix bug' entry the first record has her hash, author, date,
\* decoration and summary.
C15_HeaderFields ==
    pc = "parsed" =>
        /\ \A k \in 1..Len(commits) :
               LET lines == Fragment(output, k)
               IN /\ commits[k].hash = HeaderValue(lines, CommitPrefix)
                  /\ commits[k].author = HeaderValue(lines, AuthorPrefix)
                  /\ commits[k].date = HeaderValue(lines, DatePrefix)
                  /\ commits[k].branch = HeaderValue(lines, BranchesPrefix)
        /\ output = ScenarioText =>
               /\ Len(commits) >= 1
               /\ StartsWith(commits[1].hash, <<"a","b","c","1","2","3","4">>)
               /\ commits[1].author = <<"J","a","n","e",SP,"<","j","@","e",">">>
               /\ commits[1].date = <<"2",SP,"d","a","y","s",SP,"a","g","o">>
               /\ commits[1].branch = <<"m","a","i","n",",",SP,"o","/","m","a","i","n">>
               /\ commits[1].message = <<"F","i","x",SP,"b","u","g">>

\* a record whose fragment has two different author lines before any diff
\* marker and no date line
C15_Witness ==
    /\ pc = "parsed"
    /\ \E k \in 1..Len(commits) :
           LET lines == HeaderPart(Fragment(output, k))
           IN /\ \E i, j \in 1..Len(lines) :
                     /\ i < j
                     /\ lines[i] = AuthorPrefix \o <<"J">>
                     /\ lines[j] = AuthorPrefix \o <<SP,"K",SP>>
              /\ commits[k].author = <<"K">>
              /\ commits[k].date = <<>>

----------------------------------------------------------------------------
(* Claims about the whole pipeline, checked under SpecRender *)

\* C14: empty raw text goes through the pipeline without an error:
\* parseGitLog gives zero records and formatCommitsHTML of them gives the
\* 'no commits found' document (the title, then its closing part), with
\* nothing of the populated document in it.
C14_EmptyTextEmptyDocument ==
    output = <<>> =>
        /\ pc \in {"parsed", "rendered"} => commits = <<>>
        /\ pc = "rendered" =>
              /\ Len(html) > 0
              /\ html[Len(html)] = EmptyDocTail
              /\ \A i \in 1..Len(html) :
                     html[i] \notin {DocStats, DocCommitWord, DocList, DocTail, CardOpen}
              /\ TextAfter(html, EmptyDocHead) = escapeHTML(title)
              /\ TextAfter(html, EmptyDocStyle) = escapeHTML(title)

C14_Witness ==
    /\ pc = "rendered"
    /\ output = <<>>
    /\ html # <<>>

\* the lines of a raw text at which a record's fragment starts: a marker
\* line that opens the text or follows a blank line
FragmentStarts(lines) ==
    {i \in 1..Len(lines) :
        /\ StartsWith(lines[i], CommitPrefix)
        /\ i = 1 \/ (i >= 3 /\ lines[i - 1] = <<>>)}

\* the k-th smallest member of a set of numbers
KthSmallest(S, k) == CHOOSE i \in S : Cardinality({j \in S : j <= i}) = k

\* the line at which the k-th fragment ends: the one before the next start
FragmentEnd(starts, lines, k) ==
    IF k < Cardinality(starts) THEN KthSmallest(starts, k + 1) - 1 ELSE Len(lines)

\* what follows a prefix on the last line of lines[from..to] that starts
\* with it, trimmed; empty when there is no such line
LastValue(lines, from, to, prefix) ==
    LET at == {i \in from..to : StartsWith(lines[i], prefix)}
    IN IF at = {} THEN <<>>
       ELSE LET last == lines[CHOOSE i \in at : \A j \in at : i >= j]
            IN Trim(SubSeq(last, Len(prefix) + 1, Len(last)))

\* C17: the records come out in the order their fragments occur in the raw
\* text, and the document has one card per record in that order: the k-th
\* record and the k-th card carry the revision id, date and author of the
\* k-th fragment of the text; nothing is dropped, doubled or moved.
C17_OrderPreserved ==
    pc \in {"parsed", "rendered"} =>
        LET lines == TextLines(output)
            starts == FragmentStarts(lines)
            count == Cardinality(starts)
            cards == Cards(html)
            field(k, prefix) ==
                LastValue(lines, KthSmallest(starts, k),
                          FragmentEnd(starts, lines, k), prefix)
        IN /\ Len(commits) = count
           /\ \A k \in 1..count :
                  /\ commits[k].hash = field(k, CommitPrefix)
                  /\ commits[k].date = field(k, DatePrefix)
                  /\ commits[k].author = field(k, AuthorPrefix)
           /\ (pc = "rendered" /\ count > 0) =>
                  /\ Len(cards) = count
                  /\ \A k \in 1..count :
                         /\ TextAfter(cards[k], CardHash)
                                = Substring0(field(k, CommitPrefix), HashChars)
                         /\ TextAfter(cards[k], CardDate)
                                = escapeHTML(field(k, DatePrefix))
                         /\ TextAfter(cards[k], CardAuthor)
                                = escapeHTML(field(k, AuthorPrefix))

C17_Witness ==
    /\ pc = "rendered"
    /\ Len(commits) = 3
    /\ Len(Cards(html)) = 3
    /\ commits[1].hash # commits[2].hash
    /\ commits[2].hash # commits[3].hash
    /\ commits[1].date # commits[2].date

----------------------------------------------------------------------------
(* Claims about provideHover, checked under SpecHover *)

\* C11: a hover request never fails visibly: whatever root resolution, the
\* git query and the parsing come to, provideHover returns a preview or
\* nothing, no exception escapes it, and it shows no message and opens no
\* panel.
C11_HoverNeverFails ==
    [][ hovers' # hovers =>
          LET result == hovers'[Len(hovers')].result
          IN /\ ~result.threw
             /\ result.error = NoError
             /\ result.value = Nothing \/ Head(result.value) = HoverHeading
             /\ messages' = messages
             /\ panels' = panels ]_vars

C11_Witness ==
    \E i \in 1..Len(hovers) :
        /\ toplevel # Null
        /\ Len(hovers[i].result.launched) = 1
        /\ ~git[hovers[i].result.launched[1]].ok
        /\ hovers[i].result.value = Nothing

\* C16: hovering the same line of the same file a second time, the history
\* of the repository unchanged, launches no git history query.
C16_SecondHoverLaunchesNothing ==
    \A i, j \in 1..Len(hovers) :
        (i < j /\ hovers[i].line = hovers[j].line)
            => hovers[j].result.launched = <<>>

----------------------------------------------------------------------------
(* Claims about the panel commands, checked under SpecHost *)

PanelCommands == {"lineHistoryCommand", "functionHistoryCommand"}

IsErrorMessage(m) == m.level = "error"

\* the error messages shown so far
ErrorsShown == SelectSeq(messages, IsErrorMessage)

\* C12: a finished panel command has exactly one of three outcomes: one
\* panel opened and no error shown (the query succeeded); no panel and one
\* error message, shown last (no editor, not a repository, or git failed);
\* or, for the function command only, nothing at all.  A failed query opens
\* no panel and its error is the one shown.  A command waiting at its prompt
\* can always resume.
C12_OneTerminalOutcome ==
    /\ (hpc = "done" /\ call.name \in PanelCommands) =>
          LET opened == Len(panels) = 1 /\ ErrorsShown = <<>>
              failed == /\ panels = <<>>
                        /\ Len(ErrorsShown) = 1
                        /\ messages[Len(messages)] = ErrorsShown[1]
              aborted == /\ panels = <<>>
                         /\ messages = <<>>
                         /\ call.name = "functionHistoryCommand"
          IN /\ Cardinality({o \in {<<1, opened>>, <<2, failed>>, <<3, aborted>>} :
                                  o[2]}) = 1
             /\ opened => (~outcome.threw /\ Len(launched) = 1
                                          /\ git[launched[1]].ok)
             /\ failed =>
                   ErrorsShown[1] \in
                       {NoEditorMessage, ErrorMessage(NotAGitRepository),
                        ErrorMessage(GitCommandFailed(call.args))}
             /\ outcome.threw =>
                   (failed /\ ErrorsShown[1] = ErrorMessage(outcome.error))
             /\ ~editor.present => (failed /\ ErrorsShown[1] = NoEditorMessage)
    /\ hpc = "prompt" =>
          ENABLED (\E n \in SampleNames \cup {NoName} : InputBoxResolved(n))

C12_Witness ==
    /\ hpc = "done"
    /\ call.name = "functionHistoryCommand"
    /\ getFunctionNameAtCursor(editor.text) = NoName
    /\ toplevel # Null
    /\ outcome.threw
    /\ outcome.error = GitCommandFailed(call.args)
    /\ panels = <<>>

\* C13: the function command prompts for a name only when the heuristic
\* found none in the line at the cursor, and uses the heuristic's name when
\* there is one; when the prompt gives no name either, the command ends
\* with no history query launched, no panel and no message.
C13_NoNameIsNoOp ==
    /\ hpc = "prompt" =>
          (editor.present /\ getFunctionNameAtCursor(editor.text) = NoName)
    /\ ( /\ call.name = "functionHistoryCommand"
         /\ editor.present
         /\ getFunctionNameAtCursor(editor.text) # NoName )
       => /\ hpc = "done"
          /\ call.args = FunctionArgs(getFunctionNameAtCursor(editor.text))
    /\ ( /\ hpc = "done"
         /\ call.name = "functionHistoryCommand"
         /\ editor.present
         /\ call.args.text = NoName )
       => /\ getFunctionNameAtCursor(editor.text) = NoName
          /\ launched = <<>>
          /\ git = NoAnswers
          /\ panels = <<>>
          /\ messages = <<>>

C13_Witness ==
    /\ hpc = "done"
    /\ call.name = "functionHistoryCommand"
    /\ editor.present
    /\ toplevel # Null
    /\ call.args.text = NoName
    /\ messages = <<>>

\* what each pattern of the list comes to on each sample line, and what
\* getFunctionNameAtCursor returns for the line
PatternMatches ==
    [text \in SampleLineTexts |->
        [k \in 1..Len(Patterns) |-> Match(text, Patterns[k])]]

NamesReturned == [text \in SampleLineTexts |-> getFunctionNameAtCursor(text)]

\* index of the first pattern that matches a sample line, 0 when none does
FirstMatching(text) ==
    LET hits == {k \in 1..Len(Patterns) : PatternMatches[text][k].ok}
    IN IF hits = {} THEN 0 ELSE CHOOSE k \in hits : \A m \in hits : k <= m

\* C18: on the line at the cursor getFunctionNameAtCursor returns what the
\* first pattern of the list that matches captured, and none when no pattern
\* matches; the function command tracks that name, or prompts when there is
\* none.  'function calculateTotal(items) {' gives 'calculateTotal' and
\* 'const x = 5;' gives none.
C18_FirstPatternWins ==
    editor.present =>
        LET text == editor.text
            first == FirstMatching(text)
            name == NamesReturned[text]
        IN /\ first = 0 => name = NoName
           /\ first # 0 =>
                 /\ name = PatternMatches[text][first].cap
                 /\ name # NoName
                 /\ \A i \in 1..Len(name) : name[i] \in WordChars
                 /\ IndexOf(text, name) # 0
           /\ text = <<"f","u","n","c","t","i","o","n",SP,"c","a","l","c","u","l",
                       "a","t","e","T","o","t","a","l","(","i","t","e","m","s",")",
                       SP,"{">>
                 => name = <<"c","a","l","c","u","l","a","t","e","T","o","t","a","l">>
           /\ text = <<"c","o","n","s","t",SP,"x",SP,"=",SP,"5",";">>
                 => name = NoName
           /\ call.name = "functionHistoryCommand" =>
                 IF first = 0
                 THEN hpc = "prompt" \/ call.args.text \in SampleNames \cup {NoName}
                 ELSE /\ hpc = "done"
                      /\ call.args.text = PatternMatches[text][first].cap

\* the function command ran on a line that two patterns match with
\* different captures, and tracked the first one's
C18_Witness ==
    /\ editor.present
    /\ hpc = "done"
    /\ call.name = "functionHistoryCommand"
    /\ Cardinality({PatternMatches[editor.text][k].cap :
                       k \in {j \in 1..Len(Patterns) :
                                 PatternMatches[editor.text][j].ok}}) = 2
    /\ call.args.text = <<"x">>

\* C19: one history operation launches the history query at most twice, and
\* twice only when it is getLineHistory with startLine # endLine whose first
\* query failed; any other failed query is launched once and its failure is
\* what the operation throws.
C19_NoOtherRetries ==
    (hpc = "done" /\ call.args # NoArgs) =>
        LET fallsBack == /\ call.args.kind = "range"
                         /\ call.args.start # call.args.end
                         /\ toplevel # Null
                         /\ ~git[call.args].ok
        IN /\ Len(launched) <= 2
           /\ Len(launched) = 2 <=> fallsBack
           /\ (toplevel # Null /\ ~fallsBack) => launched = <<call.args>>
           /\ (toplevel # Null /\ ~fallsBack /\ ~git[call.args].ok) =>
                 /\ outcome.threw
                 /\ outcome.error = GitCommandFailed(call.args)

C19_Witness ==
    /\ hpc = "done"
    /\ call.name = "searchCodeHistory"
    /\ toplevel # Null
    /\ ~git[call.args].ok
    /\ launched = <<call.args>>
    /\ outcome.threw

----------------------------------------------------------------------------
(* A claim about hovers next to a command, checked under SpecHover *)

\* what a panel command shows when its history operation came to result
ShownFor(info, result, ttl) ==
    [messages |-> IF result.threw THEN <<info, ErrorMessage(result.error)>>
                  ELSE <<info>>,
     panels |-> IF result.threw THEN <<>> ELSE <<CommitsPanel(result.value, ttl)>>]

\* C20: hovers and a panel command do not disturb each other, however they
\* interleave: every hover returned what provideHover returns for its line
\* on this repository; a command waiting at its prompt has shown and
\* launched nothing; a finished command launched, returned and showed what
\* it does on this repository with no hover around.
C20_Independent ==
    /\ \A i \in 1..Len(hovers) :
           hovers[i].result = provideHover(toplevel, git, hovers[i].line)
    /\ (hpc = "idle" \/ hpc = "prompt") =>
           /\ launched = <<>>
           /\ outcome = NoOutcome
           /\ messages = <<>>
           /\ panels = <<>>
    /\ (hpc = "done" /\ call.args = NoArgs) =>
           /\ launched = <<>>
           /\ outcome = NoOutcome
           /\ panels = <<>>
           /\ messages = IF editor.present THEN <<>> ELSE <<NoEditorMessage>>
    /\ (hpc = "done" /\ call.name = "functionHistoryCommand" /\ call.args # NoArgs) =>
           LET name == call.args.text
               alone == getFunctionHistory(toplevel, git, name)
               shown == ShownFor(TrackingMessage(name), alone,
                                 FunctionTitle(name, editor.fileName))
           IN /\ NamesReturned[editor.text] # NoName
                    => name = NamesReturned[editor.text]
              /\ outcome = alone
              /\ launched = alone.launched
              /\ messages = shown.messages
              /\ panels = shown.panels

\* a hover ran while the function command was waiting at its prompt, the
\* command then went on with a name and opened its panel, and the hover
\* returned a preview
C20_Witness ==
    /\ hpc = "done"
    /\ call.name = "functionHistoryCommand"
    /\ Len(panels) = 1
    /\ \E i \in 1..Len(hovers) :
           /\ hovers[i].atPrompt
           /\ hovers[i].result.value # Nothing

----------------------------------------------------------------------------
(* A claim about the callers of getLineHistory, checked under SpecEntry *)

\* the queries are all for one line: start and end are the same
SingleLineQueries(queries) ==
    \A i \in 1..Len(queries) :
        queries[i].kind = "range" /\ queries[i].start = queries[i].end

\* C21: the hover provider and the line-history command both call
\* getLineHistory with startLine = endLine = cursor line + 1, so the retry
\* for a range is never taken: a line query that fails is the only history
\* query launched, and its failure goes to the caller, where the hover
\* swallows it (returns nothing) and the command shows it as its error
\* message.
C21_CallersAskOneLine ==
    /\ \A i \in 1..Len(hovers) :
           LET query == RangeArgs(hovers[i].line + 1, hovers[i].line + 1)
               result == hovers[i].result
           IN /\ SingleLineQueries(result.launched)
              /\ Len(result.launched) <= 1
              /\ toplevel # Null => result.launched = <<query>>
              /\ (toplevel # Null /\ ~git[query].ok) =>
                    /\ ~result.threw
                    /\ result.value = Nothing
    /\ (hpc = "done" /\ call.name = "lineHistoryCommand" /\ editor.present) =>
           LET query == RangeArgs(editor.line + 1, editor.line + 1)
           IN /\ call.args = query
              /\ SingleLineQueries(launched)
              /\ Len(launched) <= 1
              /\ toplevel # Null => launched = <<query>>
              /\ (toplevel # Null /\ ~git[query].ok) =>
                    /\ outcome.threw
                    /\ outcome.error = GitCommandFailed(query)
                    /\ messages = <<SearchingMessage, ErrorMessage(outcome.error)>>
                    /\ panels = <<>>

\* the line query failed for a hover and for the command on the same line
C21_Witness ==
    /\ hpc = "done"
    /\ call.name = "lineHistoryCommand"
    /\ toplevel # Null
    /\ outcome.threw
    /\ launched = <<call.args>>
    /\ \E i \in 1..Len(hovers) :
           /\ hovers[i].result.launched = <<call.args>>
           /\ hovers[i].result.value = Nothing

====
